---- MODULE Spec2Model ----
(***************************************************************************)
(* A model of hand_history.py: the line parser read_hand_history, the      *)
(* per-player statistics player_info and the main program.                 *)
(*                                                                         *)
(* Python objects are references.  HandLog objects live in handObjs and    *)
(* Pot objects in potObjs; `hand`, `pot`, the entries of `hands` and the   *)
(* `pots` field of a HandLog are indices into these heaps, so that a       *)
(* write through one name is seen through every other name of the same     *)
(* object.  A HandLog that no name refers to any more is garbage and its   *)
(* slot is reused by the next allocation.                                  *)
(*                                                                         *)
(* Python floats are modelled as fixed-point integers, Scale units to 1.0; *)
(* the amounts the model reads have at most one fractional digit, so that   *)
(* float(text) / 10.0 is exact in this representation.  The binary         *)
(* rounding of the sums of player_info is modelled apart, in FloatSpec.    *)
(***************************************************************************)
EXTENDS Integers, Sequences, FiniteSets, TLC

\* ------------------------------------------------------------------ bounds

\* The longest input stream read_hand_history is given.
MaxLines == 5

\* ------------------------------------------------------------- numbers

\* Fixed-point units to 1.0.
Scale == 100

\* The currency divisor applied to every amount read.
Divisor == 10

Digits == {"0", "1", "2", "3", "4", "5", "6", "7", "8", "9"}

DigitVal(c) ==
    IF c = "0" THEN 0 ELSE IF c = "1" THEN 1 ELSE IF c = "2" THEN 2
    ELSE IF c = "3" THEN 3 ELSE IF c = "4" THEN 4 ELSE IF c = "5" THEN 5
    ELSE IF c = "6" THEN 6 ELSE IF c = "7" THEN 7 ELSE IF c = "8" THEN 8
    ELSE 9

\* Position of the first "." of text t, or Len(t) + 1.
RECURSIVE DotPos(_, _)
DotPos(t, k) ==
    IF k > Len(t) THEN k
    ELSE IF t[k] = "." THEN k
    ELSE DotPos(t, k + 1)

\* The digits t[lo..hi] read as a decimal integer.
RECURSIVE DecimalOf(_, _, _)
DecimalOf(t, lo, hi) ==
    IF hi < lo THEN 0
    ELSE 10 * DecimalOf(t, lo, hi - 1) + DigitVal(t[hi])

RECURSIVE Pow10(_)
Pow10(k) == IF k = 0 THEN 1 ELSE 10 * Pow10(k - 1)

\* float(t) succeeds on a text of digits with at most one "." and at least
\* one digit ("20", "0.5", "1.", ".5"); otherwise it raises ValueError.
IsFloatText(t) ==
    /\ Len(t) > 0
    /\ \A k \in 1..Len(t) : t[k] \in Digits \cup {"."}
    /\ Cardinality({k \in 1..Len(t) : t[k] = "."}) <= 1
    /\ \E k \in 1..Len(t) : t[k] \in Digits

\* float(t), in fixed point.
ParseFloat(t) ==
    LET d == DotPos(t, 1)
        nfrac == IF d > Len(t) THEN 0 ELSE Len(t) - d
    IN  DecimalOf(t, 1, d - 1) * Scale
          + (DecimalOf(t, d + 1, Len(t)) * Scale) \div Pow10(nfrac)

\* float(t) / 10.0
ScaledAmount(t) == ParseFloat(t) \div Divisor

\* ---------------------------------------------------------------- maps

\* A Python dict keyed by player name: a function on the set of its keys.
EmptyMap == [n \in {} |-> 0]

\* d[k] = v
MapSet(d, k, v) == [n \in (DOMAIN d) \cup {k} |-> IF n = k THEN v ELSE d[n]]

\* d.get(k, 0.0)
MapGet(d, k) == IF k \in DOMAIN d THEN d[k] ELSE 0

\* ------------------------------------------------------------- records

\* Pot({}, {}, set())
EmptyPot == [amounts |-> EmptyMap, winners |-> EmptyMap, at_showdown |-> {}]

\* HandLog.empty_hand(): has_showdown is the class attribute False until an
\* instance attribute is set.
empty_hand ==
    [blinds |-> EmptyMap, at_table |-> {}, vpip |-> {}, pots |-> <<>>,
     has_showdown |-> FALSE]

\* HandLog.is_empty
is_empty(h) ==
    ~ (h.blinds # EmptyMap \/ h.at_table # {} \/ h.vpip # {} \/ h.pots # <<>>)

\* ------------------------------------------------------------ the input

Names == {"Alice", "Bob"}

\* Amount texts as they stand in a line, one character per element.
T0 == <<"0">>
T0_0 == <<"0", ".", "0">>
T20 == <<"2", "0">>
T45 == <<"4", "5">>
TDots == <<"1", ".", "2", ".">>

\* The regular expressions of read_hand_history, by the name of their variable.
Patterns ==
    {"hand_start_re", "part_re", "showdown_re", "winner_re", "show_re",
     "vpip_re", "blinds_in", "rake_re", "adds_re"}

\* A line of the stream, as the parser sees it: whether line.strip() == "",
\* the patterns whose search() matches, and the groups of the match.  players
\* is the Players group of rake_re after split(", ") and split(": ").
Line(b, m, n, a, p) ==
    [blank |-> b, matches |-> m, name |-> n, amount |-> a, players |-> p]

NoLine == Line(FALSE, {}, "", <<>>, <<>>)

\* A blank line holds no character a pattern needs, so it matches none.
BlankLines == {Line(TRUE, {}, "", <<>>, <<>>)}

UnknownLines == {NoLine}

HandStartLines == {Line(FALSE, {"hand_start_re"}, "", <<>>, <<>>)}

SeatLines == {Line(FALSE, {"part_re"}, n, <<>>, <<>>) : n \in {"Alice"}}

ShowDownLines == {Line(FALSE, {"showdown_re"}, "", <<>>, <<>>)}

WinnerLines ==
    {Line(FALSE, {"winner_re"}, "Alice", T20, <<>>),
     Line(FALSE, {"winner_re"}, "Alice", T45, <<>>),
     Line(FALSE, {"winner_re"}, "Bob", T20, <<>>),
     Line(FALSE, {"winner_re"}, "Bob", TDots, <<>>)}

ShowsLines == {Line(FALSE, {"show_re"}, n, <<>>, <<>>) : n \in Names}

VpipLines == {Line(FALSE, {"vpip_re"}, n, T20, <<>>) : n \in {"Alice"}}

BlindLines == {Line(FALSE, {"blinds_in"}, n, T20, <<>>) : n \in {"Bob"}}

RakeLines ==
    {Line(FALSE, {"rake_re"}, "", <<>>, <<<<"Alice", T20>>, <<"Bob", T45>>>>),
     Line(FALSE, {"rake_re"}, "", <<>>, <<<<"Alice", T0>>, <<"Bob", T0_0>>>>),
     Line(FALSE, {"rake_re"}, "", <<>>, <<<<"Alice">>>>)}

AddsLines ==
    {Line(FALSE, {"adds_re"}, "Bob", T45, <<>>),
     Line(FALSE, {"adds_re"}, "Alice", T20, <<>>)}

\* Lines that more than one pattern matches: a seat line of the summary
\* that also reads as a shows and a winner line, and a shows line that also
\* reads as a voluntary action.
AmbiguousLines ==
    {Line(FALSE, {"part_re", "winner_re", "show_re"}, "Bob", T20, <<>>),
     Line(FALSE, {"show_re", "vpip_re"}, "Bob", T20, <<>>)}

Lines ==
    BlankLines \cup UnknownLines \cup HandStartLines \cup SeatLines
      \cup ShowDownLines \cup WinnerLines \cup ShowsLines \cup VpipLines
      \cup BlindLines \cup RakeLines \cup AddsLines \cup AmbiguousLines

\* The tests of the loop body with the winner test moved to the front.
Rule_WinnerFirst(l) ==
    IF l.blank THEN "blank"
    ELSE IF "winner_re" \in l.matches THEN "winner"
    ELSE IF "hand_start_re" \in l.matches THEN "hand_start"
    ELSE IF "part_re" \in l.matches THEN "seat"
    ELSE IF "showdown_re" \in l.matches THEN "showdown"
    ELSE IF "show_re" \in l.matches THEN "shows"
    ELSE IF "vpip_re" \in l.matches THEN "vpip"
    ELSE IF "blinds_in" \in l.matches THEN "blind"
    ELSE IF "rake_re" \in l.matches THEN "rake"
    ELSE IF "adds_re" \in l.matches THEN "adds"
    ELSE "none"

\* The branch of the loop body that handles a line: the first test that
\* succeeds, in the order of the code; every branch but the blank one ends
\* in continue.
Rule(l) ==
    IF l.blank THEN "blank"
    ELSE IF "hand_start_re" \in l.matches THEN "hand_start"
    ELSE IF "part_re" \in l.matches THEN "seat"
    ELSE IF "showdown_re" \in l.matches THEN "showdown"
    ELSE IF "winner_re" \in l.matches THEN "winner"
    ELSE IF "show_re" \in l.matches THEN "shows"
    ELSE IF "vpip_re" \in l.matches THEN "vpip"
    ELSE IF "blinds_in" \in l.matches THEN "blind"
    ELSE IF "rake_re" \in l.matches THEN "rake"
    ELSE IF "adds_re" \in l.matches THEN "adds"
    ELSE "none"

\* ------------------------------------------------------------- the state

VARIABLES
    i,            \* read_hand_history: lines consumed so far
    line,         \* read_hand_history: the line last taken from the stream
    hands,        \* read_hand_history: list of references to HandLog objects
    hand,         \* read_hand_history: reference to the current HandLog
    shows,        \* read_hand_history: names on shows lines
    pot,          \* read_hand_history: reference to the open Pot, 0 for None
    player_adds,  \* read_hand_history: list of (player, amount)
    handObjs,     \* the HandLog objects, by reference
    potObjs,      \* the Pot objects, by reference
    pc,           \* where read_hand_history stands
    error,        \* the exception that ended it, "" for none
    result,       \* the HandHistory returned
    hand_history, \* __main__: the HandHistory, its objects by value
    all_players,  \* __main__: the players to report on
    pending,      \* __main__: the players the for loop has not reached yet
    info,         \* player_info: its parameter player and its locals
    stdout,       \* what has been printed, one entry per report block
    mpc,          \* where the main program stands
    merror        \* the exception that ended it, "" for none

parserVars ==
    <<i, line, hands, hand, shows, pot, player_adds, handObjs, potObjs, pc,
      error, result>>

mainVars == <<hand_history, all_players, pending, info, stdout, mpc, merror>>

vars == <<parserVars, mainVars>>

None == 0

NoResult == [hand_logs |-> <<>>, adds |-> <<>>]

NoInfo == [player |-> ""]

\* The main program before it is started.
MainIdle ==
    /\ hand_history = NoResult
    /\ all_players = {}
    /\ pending = {}
    /\ info = NoInfo
    /\ stdout = <<>>
    /\ mpc = "idle"
    /\ merror = ""

\* The state at line 49, before the first line is taken.
Init ==
    /\ i = 0
    /\ line = NoLine
    /\ hands = <<>>
    /\ handObjs = <<empty_hand>>
    /\ hand = 1
    /\ shows = <<>>
    /\ pot = None
    /\ potObjs = <<>>
    /\ player_adds = <<>>
    /\ pc = "reading"
    /\ error = ""
    /\ result = NoResult
    /\ MainIdle

\* ------------------------------------------------- read_hand_history

\* Whether some entry of the list hs refers to the object r.
Referenced(hs, r) == \E k \in 1..Len(hs) : hs[k] = r

\* The accumulator cleared in place instead of replaced: hand keeps
\* referring to the object it referred to.
NewHandRef_InPlace(hs) == hand

\* hand = HandLog.empty_hand(), with hs the list of completed hands: a new
\* object, in the slot of the old one when nothing refers to it any more.
NewHandRef(hs) == IF Referenced(hs, hand) THEN Len(handObjs) + 1 ELSE hand

\* A new accumulator that inherits has_showdown from the one it replaces.
NewHandObjs_KeepsShowdown(hs) ==
    LET fresh == [empty_hand EXCEPT
                    !.has_showdown = handObjs[hand].has_showdown]
    IN  IF Referenced(hs, hand) THEN Append(handObjs, fresh)
        ELSE [handObjs EXCEPT ![hand] = fresh]

NewHandObjs(hs) ==
    IF Referenced(hs, hand) THEN Append(handObjs, empty_hand)
    ELSE [handObjs EXCEPT ![hand] = empty_hand]

\* for i, line in enumerate(f, 1): the next line l is taken.
Take(l) ==
    /\ pc = "reading"
    /\ i < MaxLines
    /\ i' = i + 1
    /\ line' = l
    /\ UNCHANGED mainVars

\* An exception leaves the function; no name is assigned after it.
Raise(e) ==
    /\ pc' = "raised"
    /\ error' = e
    /\ UNCHANGED <<hands, hand, shows, pot, player_adds, handObjs, potObjs,
                   result>>

\* The accumulator appended whether or not it is empty.
FlushedHands_Always == Append(hands, hand)

\* Lines 50-53: the hands list after a blank line.
FlushedHands ==
    IF ~ is_empty(handObjs[hand]) THEN Append(hands, hand) ELSE hands

\* Lines 50-53.  A blank line matches no pattern, so the tests after it
\* (lines 54-109) do nothing.
BlankLine ==
    \E l \in Lines :
        /\ Rule(l) = "blank"
        /\ Take(l)
        /\ hands' = FlushedHands
        /\ hand' = NewHandRef(FlushedHands)
        /\ handObjs' = NewHandObjs(FlushedHands)
        /\ UNCHANGED <<shows, pot, player_adds, potObjs, pc, error, result>>

\* A hand-start marker that completes the hand before it, as a blank line
\* does.
HandStart_Flushes ==
    \E l \in Lines :
        /\ Rule(l) = "hand_start"
        /\ Take(l)
        /\ hands' = FlushedHands
        /\ hand' = NewHandRef(FlushedHands)
        /\ handObjs' = NewHandObjs(FlushedHands)
        /\ shows' = <<>>
        /\ UNCHANGED <<pot, player_adds, potObjs, pc, error, result>>

\* Lines 54-58.
HandStart ==
    \E l \in Lines :
        /\ Rule(l) = "hand_start"
        /\ Take(l)
        /\ hand' = NewHandRef(hands)
        /\ handObjs' = NewHandObjs(hands)
        /\ shows' = <<>>
        /\ UNCHANGED <<hands, pot, player_adds, potObjs, pc, error, result>>

\* Lines 60-64.
SeatLine ==
    \E l \in Lines :
        /\ Rule(l) = "seat"
        /\ Take(l)
        /\ handObjs' = [handObjs EXCEPT ![hand].at_table = @ \cup {l.name}]
        /\ UNCHANGED <<hands, hand, shows, pot, player_adds, potObjs, pc,
                       error, result>>

\* Lines 65-67.
ShowDownLine ==
    \E l \in Lines :
        /\ Rule(l) = "showdown"
        /\ Take(l)
        /\ handObjs' = [handObjs EXCEPT ![hand].has_showdown = TRUE]
        /\ UNCHANGED <<hands, hand, shows, pot, player_adds, potObjs, pc,
                       error, result>>

\* Line 74: pot.winners[name] = amount
RecordWinner(winners, name, amount) == MapSet(winners, name, amount)

\* Lines 68-75.
WinnerLine ==
    \E l \in Lines :
        /\ Rule(l) = "winner"
        /\ Take(l)
        /\ IF ~ IsFloatText(l.amount) THEN Raise("ValueError")
           ELSE /\ IF pot = None
                   THEN /\ pot' = Len(potObjs) + 1
                        /\ potObjs' =
                             Append(potObjs,
                                    [EmptyPot EXCEPT !.winners =
                                       RecordWinner(@, l.name,
                                                    ScaledAmount(l.amount))])
                   ELSE /\ pot' = pot
                        /\ potObjs' =
                             [potObjs EXCEPT ![pot].winners =
                                RecordWinner(@, l.name,
                                             ScaledAmount(l.amount))]
                /\ UNCHANGED <<hands, hand, shows, player_adds, handObjs, pc,
                               error, result>>

\* Lines 76-79.
ShowsLine ==
    \E l \in Lines :
        /\ Rule(l) = "shows"
        /\ Take(l)
        /\ shows' = Append(shows, l.name)
        /\ UNCHANGED <<hands, hand, pot, player_adds, handObjs, potObjs, pc,
                       error, result>>

\* Lines 81-85: the amount of the action is not read.
VpipLine ==
    \E l \in Lines :
        /\ Rule(l) = "vpip"
        /\ Take(l)
        /\ handObjs' = [handObjs EXCEPT ![hand].vpip = @ \cup {l.name}]
        /\ UNCHANGED <<hands, hand, shows, pot, player_adds, potObjs, pc,
                       error, result>>

\* Lines 87-92.
BlindLine ==
    \E l \in Lines :
        /\ Rule(l) = "blind"
        /\ Take(l)
        /\ IF ~ IsFloatText(l.amount) THEN Raise("ValueError")
           ELSE /\ handObjs' =
                     [handObjs EXCEPT ![hand].blinds =
                        MapSet(@, l.name, ScaledAmount(l.amount))]
                /\ UNCHANGED <<hands, hand, shows, pot, player_adds, potObjs,
                               pc, error, result>>

\* Lines 98-99: unpacking an entry that is not a (name, amt) pair, or
\* float(amt) of a kept entry that is no number, raises ValueError.
PlayersRaise(players) ==
    \E k \in 1..Len(players) :
        \/ Len(players[k]) # 2
        \/ /\ players[k][2] # T0
           /\ ~ IsFloatText(players[k][2])

\* Line 99: {name: float(amt) / 10.0 for (name, amt) in players if amt != "0"},
\* over the first k entries.
RECURSIVE PotAmounts(_, _)
PotAmounts(players, k) ==
    IF k = 0 THEN EmptyMap
    ELSE IF players[k][2] # T0
      THEN MapSet(PotAmounts(players, k - 1), players[k][1],
                  ScaledAmount(players[k][2]))
      ELSE PotAmounts(players, k - 1)

\* Only the name of the last shows line.
ShowsSet_LastOnly == IF shows = <<>> THEN {} ELSE {shows[Len(shows)]}

\* Line 100: set(shows or [])
ShowsSet == {shows[k] : k \in 1..Len(shows)}

\* A settlement that leaves the pot accumulator as it is (line 102 missing).
RakeLine_KeepsPot ==
    \E l \in Lines :
        /\ Rule(l) = "rake"
        /\ Take(l)
        /\ IF pot = None THEN Raise("AssertionError")
           ELSE IF PlayersRaise(l.players) THEN Raise("ValueError")
           ELSE /\ potObjs' =
                     [potObjs EXCEPT
                        ![pot].amounts = PotAmounts(l.players, Len(l.players)),
                        ![pot].at_showdown = ShowsSet]
                /\ handObjs' = [handObjs EXCEPT ![hand].pots = Append(@, pot)]
                /\ UNCHANGED <<hands, hand, shows, pot, player_adds, pc,
                               error, result>>

\* Lines 94-103.
RakeLine ==
    \E l \in Lines :
        /\ Rule(l) = "rake"
        /\ Take(l)
        /\ IF pot = None THEN Raise("AssertionError")
           ELSE IF PlayersRaise(l.players) THEN Raise("ValueError")
           ELSE /\ potObjs' =
                     [potObjs EXCEPT
                        ![pot].amounts = PotAmounts(l.players, Len(l.players)),
                        ![pot].at_showdown = ShowsSet]
                /\ handObjs' = [handObjs EXCEPT ![hand].pots = Append(@, pot)]
                /\ pot' = None
                /\ UNCHANGED <<hands, hand, shows, player_adds, pc, error,
                               result>>

\* A chip addition put at the front of the additions list.
AddsLine_AtFront ==
    \E l \in Lines :
        /\ Rule(l) = "adds"
        /\ Take(l)
        /\ IF ~ IsFloatText(l.amount) THEN Raise("ValueError")
           ELSE /\ player_adds' =
                     <<<<l.name, ScaledAmount(l.amount)>>>> \o player_adds
                /\ UNCHANGED <<hands, hand, shows, pot, handObjs, potObjs, pc,
                               error, result>>

\* Lines 105-109.
AddsLine ==
    \E l \in Lines :
        /\ Rule(l) = "adds"
        /\ Take(l)
        /\ IF ~ IsFloatText(l.amount) THEN Raise("ValueError")
           ELSE /\ player_adds' =
                     Append(player_adds, <<l.name, ScaledAmount(l.amount)>>)
                /\ UNCHANGED <<hands, hand, shows, pot, handObjs, potObjs, pc,
                               error, result>>

\* A line no test accepts: the loop body falls through.
UnknownLine ==
    \E l \in Lines :
        /\ Rule(l) = "none"
        /\ Take(l)
        /\ UNCHANGED <<hands, hand, shows, pot, player_adds, handObjs,
                       potObjs, pc, error, result>>

\* The accumulator flushed when the stream ends.
EndOfStream_Flushes ==
    /\ pc = "reading"
    /\ pc' = "returned"
    /\ hands' = FlushedHands
    /\ result' = [hand_logs |-> FlushedHands, adds |-> player_adds]
    /\ UNCHANGED <<i, line, hand, shows, pot, player_adds, handObjs,
                   potObjs, error>>
    /\ UNCHANGED mainVars

\* Line 111: the stream is exhausted.
EndOfStream ==
    /\ pc = "reading"
    /\ pc' = "returned"
    /\ result' = [hand_logs |-> hands, adds |-> player_adds]
    /\ UNCHANGED <<i, line, hands, hand, shows, pot, player_adds, handObjs,
                   potObjs, error>>
    /\ UNCHANGED mainVars

Next ==
    \/ BlankLine
    \/ HandStart
    \/ SeatLine
    \/ ShowDownLine
    \/ WinnerLine
    \/ ShowsLine
    \/ VpipLine
    \/ BlindLine
    \/ RakeLine
    \/ AddsLine
    \/ UnknownLine
    \/ EndOfStream

Spec == Init /\ [][Next]_vars

\* -------------------------------------------------------- player_info

\* Lines 133-135: amount_won after the first k pots of a hand.
RECURSIVE AmountWon(_, _, _)
AmountWon(pots, player, k) ==
    IF k = 0 THEN 0
    ELSE AmountWon(pots, player, k - 1) + MapGet(pots[k].winners, player)

\* Lines 133-135: amount_bet after the first k pots of a hand.
RECURSIVE AmountBet(_, _, _)
AmountBet(pots, player, k) ==
    IF k = 0 THEN 0
    ELSE AmountBet(pots, player, k - 1) + MapGet(pots[k].amounts, player)

\* A hand that returns exactly the stake counted as won.
IsWon_NotStrict(amount_won, amount_bet) ==
    amount_won > 0 /\ amount_won >= amount_bet

\* Line 136.
IsWon(amount_won, amount_bet) == amount_won > 0 /\ amount_won > amount_bet

\* Every hand not won counted as lost (the test of line 142 missing).
IsLost_NotWon(amount_won, amount_bet) == ~ IsWon(amount_won, amount_bet)

\* Line 142, reached when line 136 fails.
IsLost(amount_won, amount_bet) ==
    ~ IsWon(amount_won, amount_bet) /\ amount_bet > 0

\* The second argument, whichever is larger.
Max_Last(a, b) == b

Max(a, b) == IF a >= b THEN a ELSE b

Min(a, b) == IF a <= b THEN a ELSE b

\* Lines 114-128: the locals of player_info before its loop; each
\* sum(1 for hand in hands if ...) is the number of hands that qualify, and
\* k counts the hands the loop has processed.
InfoStart(hs, player) ==
    [player |-> player,
     k |-> 0,
     total_hands |->
        Cardinality({k \in 1..Len(hs) : player \in hs[k].at_table}),
     num_showdown |->
        Cardinality({k \in 1..Len(hs) :
            /\ hs[k].has_showdown
            /\ \E p \in 1..Len(hs[k].pots) :
                  player \in hs[k].pots[p].at_showdown}),
     num_vpip |-> Cardinality({k \in 1..Len(hs) : player \in hs[k].vpip}),
     num_part |->
        Cardinality({k \in 1..Len(hs) :
            \E p \in 1..Len(hs[k].pots) :
                player \in DOMAIN hs[k].pots[p].amounts}),
     num_hands_won |-> 0,
     num_hands_lost |-> 0,
     num_hands_lost_vpip |-> 0,
     num_hands_won_showdown |-> 0,
     net |-> 0,
     net_won |-> 0,
     gross_won |-> 0,
     net_lost |-> 0,
     blinds_paid |-> 0,
     max_pot |-> 0,
     min_pot |-> 0]

\* Lines 130-150: one pass of the loop, over hand h.
InfoHand(inf, h) ==
    LET amount_won == AmountWon(h.pots, inf.player, Len(h.pots))
        amount_bet == AmountBet(h.pots, inf.player, Len(h.pots))
        won == IsWon(amount_won, amount_bet)
        lost == IsLost(amount_won, amount_bet)
        amount_net == amount_won - amount_bet
    IN  [inf EXCEPT
           !.k = @ + 1,
           !.blinds_paid = @ + MapGet(h.blinds, inf.player),
           !.num_hands_won = IF won THEN @ + 1 ELSE @,
           !.num_hands_won_showdown =
               IF won /\ h.has_showdown THEN @ + 1 ELSE @,
           !.gross_won = IF won THEN @ + amount_won ELSE @,
           !.net_won = IF won THEN @ + amount_won - amount_bet ELSE @,
           !.net_lost = IF lost THEN @ + amount_bet - amount_won ELSE @,
           !.num_hands_lost = IF lost THEN @ + 1 ELSE @,
           !.num_hands_lost_vpip =
               IF lost /\ inf.player \in h.vpip THEN @ + 1 ELSE @,
           !.net = @ + amount_net,
           !.max_pot = Max(@, amount_net),
           !.min_pot = Min(@, amount_net)]

\* "{:.2f}".format(n / d) for d > 0, n in fixed point: the quotient rounded
\* to the nearest hundredth, a tie to the even one.
Format2(n, d) ==
    LET q == (n * 100) \div (d * Scale)
        r == (n * 100) - q * (d * Scale)
    IN  IF 2 * r < d * Scale THEN q
        ELSE IF 2 * r > d * Scale THEN q + 1
        ELSE IF q % 2 = 0 THEN q ELSE q + 1

\* "{:.2f}".format(100 * n / d) for counts n and d > 0.
Percent(n, d) == Format2(100 * n * Scale, d)

\* Line 164: the numerator of "Average Pot Lost (VPiP only)".
LostVpipNumerator(inf) == inf.net_lost - inf.blinds_paid

\* Lines 155-164: the line whose division raises ZeroDivisionError, the
\* first with a denominator of 0, or 0 when none has.
ZeroDivisionLine(inf) ==
    IF inf.total_hands = 0 THEN 155
    ELSE IF inf.num_vpip = 0 THEN 157
    ELSE IF inf.num_part = 0 THEN 158
    ELSE IF inf.num_showdown = 0 THEN 159
    ELSE IF inf.num_hands_won = 0 THEN 161
    ELSE IF inf.num_hands_lost = 0 THEN 163
    ELSE IF inf.num_hands_lost_vpip = 0 THEN 164
    ELSE 0

\* Lines 152-165: the block printed, the lines before line `stop` of the
\* source (all of them when stop is 0).  Amounts are in hundredths, as
\* printed; the numbers of a line that was not printed are left 0.
Block(inf, stop) ==
    LET on(l) == stop = 0 \/ l < stop
    IN  [player |-> inf.player,
         complete |-> stop = 0,
         net |-> Format2(inf.net, 1),
         total_hands |-> inf.total_hands,
         num_part |-> IF on(155) THEN inf.num_part ELSE 0,
         pct_part |->
            IF on(155) THEN Percent(inf.num_part, inf.total_hands) ELSE 0,
         num_vpip |-> IF on(156) THEN inf.num_vpip ELSE 0,
         pct_vpip |->
            IF on(156) THEN Percent(inf.num_vpip, inf.total_hands) ELSE 0,
         num_showdown |-> IF on(157) THEN inf.num_showdown ELSE 0,
         pct_showdown |->
            IF on(157) THEN Percent(inf.num_showdown, inf.num_vpip) ELSE 0,
         num_hands_won |-> IF on(158) THEN inf.num_hands_won ELSE 0,
         pct_won_part |->
            IF on(158) THEN Percent(inf.num_hands_won, inf.num_part) ELSE 0,
         pct_won_vpip |->
            IF on(158) THEN Percent(inf.num_hands_won, inf.num_vpip) ELSE 0,
         num_hands_won_showdown |->
            IF on(159) THEN inf.num_hands_won_showdown ELSE 0,
         pct_won_showdown_part |->
            IF on(159) THEN Percent(inf.num_hands_won_showdown, inf.num_part)
            ELSE 0,
         pct_won_showdown |->
            IF on(159)
            THEN Percent(inf.num_hands_won_showdown, inf.num_showdown)
            ELSE 0,
         avg_gross_won |->
            IF on(161) THEN Format2(inf.gross_won, inf.num_hands_won) ELSE 0,
         avg_net_won |->
            IF on(161) THEN Format2(inf.net_won, inf.num_hands_won) ELSE 0,
         max_pot |-> IF on(162) THEN Format2(inf.max_pot, 1) ELSE 0,
         avg_lost |->
            IF on(163) THEN Format2(inf.net_lost, inf.num_hands_lost) ELSE 0,
         num_hands_lost |-> IF on(163) THEN inf.num_hands_lost ELSE 0,
         avg_lost_vpip |->
            IF on(164)
            THEN Format2(LostVpipNumerator(inf), inf.num_hands_lost_vpip)
            ELSE 0,
         num_hands_lost_vpip |->
            IF on(164) THEN inf.num_hands_lost_vpip ELSE 0,
         min_pot |-> IF on(165) THEN Format2(inf.min_pot, 1) ELSE 0]

\* ------------------------------------------------------------ __main__

\* The longest list of hands the main program is given.
MaxHands == 2

\* A Pot, by value.
PotOf(amounts, winners, at_showdown) ==
    [amounts |-> amounts, winners |-> winners, at_showdown |-> at_showdown]

\* dict literals over the two players.
Only(n, v) == [x \in {n} |-> v]

Both(a, b) == [x \in Names |-> IF x = "Alice" THEN a ELSE b]

\* The pots of a hand, amounts as stored (2.0 is 2 * Scale): no pot; a pot
\* Alice wins; a pot Bob wins; a split pot; a pot Alice wins without having
\* an amounts entry; a main pot Alice wins and a larger side pot Bob wins.
PotLists ==
    {<<>>,
     <<PotOf(Both(200, 200), Only("Alice", 400), Names)>>,
     <<PotOf(Both(200, 200), Only("Bob", 400), Names)>>,
     <<PotOf(Both(200, 200), Both(200, 200), {})>>,
     <<PotOf(Only("Bob", 200), Only("Alice", 200), {"Alice"})>>,
     <<PotOf(Both(200, 200), Only("Alice", 400), Names),
       PotOf(Both(500, 500), Only("Bob", 1000), Names)>>}

\* Who posted blinds, who was seated and who acted voluntarily in a hand:
\* both players all three; Bob alone posting and Alice alone acting; Alice
\* posting in a log without seat lines.
Seatings ==
    {[blinds |-> Both(50, 100), at_table |-> Names, vpip |-> Names],
     [blinds |-> Only("Bob", 100), at_table |-> Names, vpip |-> {"Alice"}],
     [blinds |-> Only("Alice", 50), at_table |-> {}, vpip |-> {}]}

\* The hands the main program is given: none of them is empty.
HandUniverse ==
    {[blinds |-> s.blinds, at_table |-> s.at_table, vpip |-> s.vpip,
      pots |-> ps, has_showdown |-> sd] :
        s \in Seatings, ps \in PotLists, sd \in BOOLEAN}

RECURSIVE ListsUpTo(_, _)
ListsUpTo(S, n) ==
    IF n = 0 THEN {<<>>}
    ELSE LET shorter == ListsUpTo(S, n - 1)
         IN  shorter \cup {Append(l, x) : l \in shorter, x \in S}

\* read_hand_history has returned; the parser's state plays no part in what
\* follows.
ParserDone ==
    /\ i = 0
    /\ line = NoLine
    /\ hands = <<>>
    /\ handObjs = <<empty_hand>>
    /\ hand = 1
    /\ shows = <<>>
    /\ pot = None
    /\ potObjs = <<>>
    /\ player_adds = <<>>
    /\ pc = "returned"
    /\ error = ""
    /\ result = NoResult

\* The state at line 170: hand_history holds what read_hand_history returned.
MainInit ==
    /\ ParserDone
    /\ hand_history \in
         {[hand_logs |-> l, adds |-> <<>>] : l \in ListsUpTo(HandUniverse, MaxHands)}
    /\ all_players = {}
    /\ pending = {}
    /\ info = NoInfo
    /\ stdout = <<>>
    /\ mpc = "main"
    /\ merror = ""

\* Lines 170-172.
BlindPosters(hs) == UNION {DOMAIN hs[k].blinds : k \in 1..Len(hs)}

CollectPlayers ==
    /\ mpc = "main"
    /\ all_players' = BlindPosters(hand_history.hand_logs)
    /\ pending' = all_players'
    /\ mpc' = "for_player"
    /\ UNCHANGED <<hand_history, info, stdout, merror>>
    /\ UNCHANGED parserVars

\* Lines 173-174 and 113-128: the for loop takes the next player, in the
\* arbitrary order of a set, and calls player_info.
CallPlayerInfo ==
    /\ mpc = "for_player"
    /\ \E p \in pending :
        /\ pending' = pending \ {p}
        /\ info' = InfoStart(hand_history.hand_logs, p)
    /\ mpc' = "info_loop"
    /\ UNCHANGED <<hand_history, all_players, stdout, merror>>
    /\ UNCHANGED parserVars

\* Lines 129-150.
InfoLoop ==
    /\ mpc = "info_loop"
    /\ info.k < Len(hand_history.hand_logs)
    /\ info' = InfoHand(info, hand_history.hand_logs[info.k + 1])
    /\ UNCHANGED <<hand_history, all_players, pending, stdout, mpc, merror>>
    /\ UNCHANGED parserVars

\* Lines 152-165 and 175: the block is printed up to the first division by 0.
InfoPrint ==
    /\ mpc = "info_loop"
    /\ info.k = Len(hand_history.hand_logs)
    /\ stdout' = Append(stdout, Block(info, ZeroDivisionLine(info)))
    /\ IF ZeroDivisionLine(info) # 0
       THEN /\ mpc' = "raised"
            /\ merror' = "ZeroDivisionError"
       ELSE /\ mpc' = "for_player"
            /\ merror' = merror
    /\ UNCHANGED <<hand_history, all_players, pending, info>>
    /\ UNCHANGED parserVars

\* Line 173: the for loop is exhausted and the program ends.
MainExit ==
    /\ mpc = "for_player"
    /\ pending = {}
    /\ mpc' = "done"
    /\ UNCHANGED <<hand_history, all_players, pending, info, stdout, merror>>
    /\ UNCHANGED parserVars

MainNext ==
    \/ CollectPlayers
    \/ CallPlayerInfo
    \/ InfoLoop
    \/ InfoPrint
    \/ MainExit

MainSpec == MainInit /\ [][MainNext]_vars

\* ------------------------------------------------- binary64 arithmetic

(***************************************************************************)
(* The float of Python is an IEEE 754 binary64.  For the accumulators of   *)
(* player_info the rounding of every sum matters, so its arithmetic is     *)
(* also modelled exactly: a natural number is the sequence of its limbs    *)
(* of LimbBits bits, the least significant first and the last one not 0;   *)
(* a float is a sign, a significand of exactly FloatBits bits and an       *)
(* exponent, of value (-1)^neg * man * 2^exp, or FZero.  The amounts of a  *)
(* hand history keep the exponents far from the subnormal and the          *)
(* overflow range, and no operation modelled produces a negative zero, an  *)
(* infinity or a NaN.                                                      *)
(***************************************************************************)

\* The significand of a binary64, hidden bit included.
FloatBits == 53

\* The bits of a limb, and the bits a dividend is extended by before the
\* quotient is rounded.
LimbBits == 15

GuardBits == 60

RECURSIVE Pow2(_)
Pow2(k) == IF k = 0 THEN 1 ELSE 2 * Pow2(k - 1)

Base == Pow2(LimbBits)

RECURSIVE LimbsOf(_)
LimbsOf(n) == IF n = 0 THEN <<>> ELSE <<n % Base>> \o LimbsOf(n \div Base)

Limb(a, k) == IF k <= Len(a) THEN a[k] ELSE 0

\* a without its leading zero limbs.
RECURSIVE Trim(_)
Trim(a) ==
    IF a = <<>> THEN <<>>
    ELSE IF a[Len(a)] = 0 THEN Trim(SubSeq(a, 1, Len(a) - 1))
    ELSE a

\* The number of bits of a, which is not 0.
BitLength(a) ==
    LimbBits * (Len(a) - 1)
      + CHOOSE k \in 1..LimbBits :
            Pow2(k - 1) <= a[Len(a)] /\ a[Len(a)] < Pow2(k)

\* The limbs of a + b + c from limb k on, c the carry into limb k.
RECURSIVE AddFrom(_, _, _, _)
AddFrom(a, b, k, c) ==
    IF k > Len(a) /\ k > Len(b) THEN LimbsOf(c)
    ELSE LET s == Limb(a, k) + Limb(b, k) + c
         IN  <<s % Base>> \o AddFrom(a, b, k + 1, s \div Base)

\* The limbs of a - b - c from limb k on, for a >= b, c the borrow.
RECURSIVE SubFrom(_, _, _, _)
SubFrom(a, b, k, c) ==
    IF k > Len(a) THEN <<>>
    ELSE LET s == Limb(a, k) - Limb(b, k) - c
         IN  <<IF s < 0 THEN s + Base ELSE s>>
               \o SubFrom(a, b, k + 1, IF s < 0 THEN 1 ELSE 0)

\* a < b below limb k + 1, for a and b of the same length.
RECURSIVE LessFrom(_, _, _)
LessFrom(a, b, k) ==
    IF k = 0 THEN FALSE
    ELSE IF a[k] # b[k] THEN a[k] < b[k]
    ELSE LessFrom(a, b, k - 1)

LimbsLess(a, b) ==
    IF Len(a) # Len(b) THEN Len(a) < Len(b) ELSE LessFrom(a, b, Len(a))

\* The limbs of a * m + c from limb k on, for a small number m.
RECURSIVE MulFrom(_, _, _, _)
MulFrom(a, m, k, c) ==
    IF k > Len(a) THEN LimbsOf(c)
    ELSE LET s == a[k] * m + c
         IN  <<s % Base>> \o MulFrom(a, m, k + 1, s \div Base)

\* a * 2^n
ShiftLeft(a, n) ==
    IF a = <<>> THEN <<>>
    ELSE [k \in 1..(n \div LimbBits) |-> 0]
           \o MulFrom(a, Pow2(n % LimbBits), 1, 0)

\* Long division of the limbs of a from limb k up by the small number d:
\* the quotient, as long as that part of a, and the remainder.
RECURSIVE DivFrom(_, _, _)
DivFrom(a, d, k) ==
    IF k > Len(a) THEN [q |-> <<>>, r |-> 0]
    ELSE LET hi == DivFrom(a, d, k + 1)
             t == hi.r * Base + a[k]
         IN  [q |-> <<t \div d>> \o hi.q, r |-> t % d]

\* a \div 2^n, and whether a bit that is 1 was shifted out.
ShiftRight(a, n) ==
    LET w == n \div LimbBits
        dv == DivFrom(SubSeq(a, w + 1, Len(a)), Pow2(n % LimbBits), 1)
    IN  [q |-> Trim(dv.q),
         lost |-> dv.r # 0 \/ \E k \in 1..w : Limb(a, k) # 0]

FZero == [neg |-> FALSE, man |-> <<>>, exp |-> 0]

\* The binary64 nearest to (-1)^neg * (m + f) * 2^e, a tie to the even
\* significand, where 0 <= f < 1 and lost says f > 0; m has no leading
\* zero limbs, and at least FloatBits + 1 bits when lost.
Round53(neg, m, e, lost) ==
    IF m = <<>> THEN FZero
    ELSE IF BitLength(m) <= FloatBits
    THEN [neg |-> neg, man |-> ShiftLeft(m, FloatBits - BitLength(m)),
          exp |-> e - (FloatBits - BitLength(m))]
    ELSE LET d == BitLength(m) - FloatBits
             t == ShiftRight(m, d - 1)
             kept == Trim(DivFrom(t.q, 2, 1).q)
             up == /\ t.q[1] % 2 = 1
                   /\ (t.lost \/ lost \/ kept[1] % 2 = 1)
             r == IF up THEN AddFrom(kept, <<1>>, 1, 0) ELSE kept
         IN  IF BitLength(r) > FloatBits
             THEN [neg |-> neg, man |-> Trim(DivFrom(r, 2, 1).q),
                   exp |-> e + d + 1]
             ELSE [neg |-> neg, man |-> r, exp |-> e + d]

\* float(n) for a natural number n.
FloatOf(n) == Round53(FALSE, LimbsOf(n), 0, FALSE)

\* x + y
FAdd(x, y) ==
    IF x = FZero THEN y
    ELSE IF y = FZero THEN x
    ELSE LET e == IF x.exp <= y.exp THEN x.exp ELSE y.exp
             a == ShiftLeft(x.man, x.exp - e)
             b == ShiftLeft(y.man, y.exp - e)
         IN  IF x.neg = y.neg
             THEN Round53(x.neg, AddFrom(a, b, 1, 0), e, FALSE)
             ELSE IF a = b THEN FZero
             ELSE IF LimbsLess(a, b)
             THEN Round53(y.neg, Trim(SubFrom(b, a, 1, 0)), e, FALSE)
             ELSE Round53(x.neg, Trim(SubFrom(a, b, 1, 0)), e, FALSE)

\* x - y
FSub(x, y) ==
    FAdd(x, IF y = FZero THEN FZero ELSE [y EXCEPT !.neg = ~ y.neg])

\* x > y
FGreater(x, y) == FSub(x, y) # FZero /\ ~ FSub(x, y).neg

\* x / float(d) for a small natural number d > 0.
FDiv(x, d) ==
    IF x = FZero THEN FZero
    ELSE LET dv == DivFrom(ShiftLeft(x.man, GuardBits), d, 1)
         IN  Round53(x.neg, Trim(dv.q), x.exp - GuardBits, dv.r # 0)

\* float(t) for a text t with at most two fractional digits, as a binary64.
FloatOfText(t) == FDiv(FloatOf(ParseFloat(t)), Scale)

\* float(t) / 10.0, as a binary64.
FloatAmount(t) == FDiv(FloatOfText(t), Divisor)

\* ------------------------------------------- player_info, in binary64

(***************************************************************************)
(* FloatSpec is player_info called on a list of hands whose amounts are    *)
(* the binary64 values the parser stores, every sum and difference of the  *)
(* loop rounded as Python rounds it.  It ends where the loop ends: the     *)
(* printed block is modelled in MainSpec.                                  *)
(***************************************************************************)

\* The longest list of hands player_info is given in FloatSpec.
MaxFloatHands == 3

\* d.get(k, 0.0)
FloatGet(d, k) == IF k \in DOMAIN d THEN d[k] ELSE FZero

\* Line 98: the amounts of a Players list of (name, text) pairs.
RECURSIVE FloatPotAmounts(_, _)
FloatPotAmounts(players, k) ==
    IF k = 0 THEN EmptyMap
    ELSE IF players[k][2] # <<"0">>
      THEN MapSet(FloatPotAmounts(players, k - 1), players[k][1],
                  FloatAmount(players[k][2]))
      ELSE FloatPotAmounts(players, k - 1)

\* The Pot of a winner line for name with amount text t followed by a
\* settlement line with the Players list of Alice: a and Bob: b.
FloatPot(name, t, a, b) ==
    PotOf(FloatPotAmounts(<<<<"Alice", a>>, <<"Bob", b>>>>, 2),
          Only(name, FloatAmount(t)), {})

\* The pots of a hand, as the parser stores them: Bob wins 0.2 from 0.1
\* each; Alice wins 0.1 with 0 of her own; Bob wins 0.4 from 0.2 each;
\* Alice wins 0.4 from 0.2 each; no pot; 0.3 each with Alice awarded 0.1
\* of it and Bob 0.5.
FloatPotLists ==
    {<<FloatPot("Bob", <<"2">>, <<"1">>, <<"1">>)>>,
     <<FloatPot("Alice", <<"1">>, <<"0">>, <<"1">>)>>,
     <<FloatPot("Bob", <<"4">>, <<"2">>, <<"2">>)>>,
     <<FloatPot("Alice", <<"4">>, <<"2">>, <<"2">>)>>,
     <<>>,
     <<[FloatPot("Bob", <<"5">>, <<"3">>, <<"3">>) EXCEPT
          !.winners = MapSet(@, "Alice", FloatAmount(<<"1">>))]>>}

FloatHandUniverse ==
    {[blinds |-> Only("Bob", FloatAmount(<<"1">>)), at_table |-> Names,
      vpip |-> {"Alice"}, pots |-> ps, has_showdown |-> FALSE] :
        ps \in FloatPotLists}

\* player_info is about to be called.
FloatInit ==
    /\ ParserDone
    /\ hand_history \in
         {[hand_logs |-> l, adds |-> <<>>] :
             l \in ListsUpTo(FloatHandUniverse, MaxFloatHands)}
    /\ all_players = {}
    /\ pending = {}
    /\ info = NoInfo
    /\ stdout = <<>>
    /\ mpc = "call"
    /\ merror = ""

\* Lines 114-128, the amounts 0.0.
FloatInfoStart(hs, player) ==
    [InfoStart(hs, player) EXCEPT
       !.net = FZero, !.net_won = FZero, !.gross_won = FZero,
       !.net_lost = FZero, !.blinds_paid = FZero, !.max_pot = FZero,
       !.min_pot = FZero]

\* Lines 133-135: amount_won after the first k pots of a hand.
RECURSIVE FloatAmountWon(_, _, _)
FloatAmountWon(pots, player, k) ==
    IF k = 0 THEN FZero
    ELSE FAdd(FloatAmountWon(pots, player, k - 1),
              FloatGet(pots[k].winners, player))

\* Lines 133-135: amount_bet after the first k pots of a hand.
RECURSIVE FloatAmountBet(_, _, _)
FloatAmountBet(pots, player, k) ==
    IF k = 0 THEN FZero
    ELSE FAdd(FloatAmountBet(pots, player, k - 1),
              FloatGet(pots[k].amounts, player))

\* Line 136.
FloatIsWon(amount_won, amount_bet) ==
    FGreater(amount_won, FZero) /\ FGreater(amount_won, amount_bet)

\* A hand counted as lost only when nothing came back from it.
FloatIsLost_NothingBack(amount_won, amount_bet) ==
    amount_won = FZero /\ FGreater(amount_bet, FZero)

\* Line 142, reached when line 136 fails.
FloatIsLost(amount_won, amount_bet) ==
    ~ FloatIsWon(amount_won, amount_bet) /\ FGreater(amount_bet, FZero)

\* max(a, b) and min(a, b): the first argument unless the second is beyond.
FloatMax(a, b) == IF FGreater(b, a) THEN b ELSE a

FloatMin(a, b) == IF FGreater(a, b) THEN b ELSE a

\* Lines 129-150: one pass of the loop, for the hand h.
FloatInfoHand(inf, h) ==
    LET amount_won == FloatAmountWon(h.pots, inf.player, Len(h.pots))
        amount_bet == FloatAmountBet(h.pots, inf.player, Len(h.pots))
        won == FloatIsWon(amount_won, amount_bet)
        lost == FloatIsLost(amount_won, amount_bet)
        amount_net == FSub(amount_won, amount_bet)
    IN  [inf EXCEPT
           !.k = @ + 1,
           !.blinds_paid = FAdd(@, FloatGet(h.blinds, inf.player)),
           !.num_hands_won = IF won THEN @ + 1 ELSE @,
           !.num_hands_won_showdown =
               IF won /\ h.has_showdown THEN @ + 1 ELSE @,
           !.gross_won = IF won THEN FAdd(@, amount_won) ELSE @,
           !.net_won =
               IF won THEN FAdd(@, FSub(amount_won, amount_bet)) ELSE @,
           !.net_lost =
               IF lost THEN FAdd(@, FSub(amount_bet, amount_won)) ELSE @,
           !.num_hands_lost = IF lost THEN @ + 1 ELSE @,
           !.num_hands_lost_vpip =
               IF lost /\ inf.player \in h.vpip THEN @ + 1 ELSE @,
           !.net = FAdd(@, amount_net),
           !.max_pot = FloatMax(@, amount_net),
           !.min_pot = FloatMin(@, amount_net)]

\* Lines 113-128: player_info is called for one of the players.
FloatCall ==
    /\ mpc = "call"
    /\ \E p \in Names : info' = FloatInfoStart(hand_history.hand_logs, p)
    /\ mpc' = "info_loop"
    /\ UNCHANGED <<hand_history, all_players, pending, stdout, merror>>
    /\ UNCHANGED parserVars

\* Lines 129-150.
FloatInfoLoop ==
    /\ mpc = "info_loop"
    /\ info.k < Len(hand_history.hand_logs)
    /\ info' = FloatInfoHand(info, hand_history.hand_logs[info.k + 1])
    /\ UNCHANGED <<hand_history, all_players, pending, stdout, mpc, merror>>
    /\ UNCHANGED parserVars

\* Line 150: the loop is exhausted.
FloatLoopEnd ==
    /\ mpc = "info_loop"
    /\ info.k = Len(hand_history.hand_logs)
    /\ mpc' = "loop_done"
    /\ UNCHANGED <<hand_history, all_players, pending, info, stdout, merror>>
    /\ UNCHANGED parserVars

FloatNext ==
    \/ FloatCall
    \/ FloatInfoLoop
    \/ FloatLoopEnd

FloatSpec == FloatInit /\ [][FloatNext]_vars

\* --------------------------------------------------------------- views

\* The HandLog object r by value: its pots are the Pot objects it refers to.
HandValue(objs, pobjs, r) ==
    [blinds |-> objs[r].blinds,
     at_table |-> objs[r].at_table,
     vpip |-> objs[r].vpip,
     has_showdown |-> objs[r].has_showdown,
     pots |-> [p \in 1..Len(objs[r].pots) |-> pobjs[objs[r].pots[p]]]]

\* The players player_info has been called for, in the order of the calls.
Requested == [k \in 1..Len(stdout) |-> stdout[k].player]

\* ------------------------------------------------------------------ C1

\* C1: read_hand_history consumes every sequence of lines and returns
\* without raising, also when a settlement line is processed while no pot
\* is open.  Stated for the case the claim names: no line leaves the
\* function with the AssertionError of line 96.  (The ValueError of float()
\* and of the unpacking at line 99 are further ways to raise.)
C1_NeverRaises == ~ (pc = "raised" /\ error = "AssertionError")

\* ------------------------------------------------------------------ C2

\* C2: player_info renders its block without an error for every list of
\* hands and every player, also when a count used as a denominator is 0.
C2_ReportNeverRaises == mpc # "raised"

\* ------------------------------------------------------------------ C3

\* C3: every HandLog in the list of completed hands is non-empty, and after
\* a blank line the accumulator is an empty hand: a blank line appends the
\* accumulator only when it is non-empty and resets it always.
C3_NoEmptyHandInResult ==
    /\ \A k \in 1..Len(hands) : ~ is_empty(handObjs[hands[k]])
    /\ (Rule(line) = "blank" /\ i > 0) =>
          /\ handObjs[hand] = empty_hand
          /\ ~ Referenced(hands, hand)

\* Three lines have been read, the last of them blank, and the list holds
\* one hand, with Alice seated: of the blank lines read, those that met an
\* empty accumulator have appended nothing.
C3_Witness ==
    /\ Rule(line) = "blank"
    /\ i = 3
    /\ Len(hands) = 1
    /\ handObjs[hands[1]].at_table = {"Alice"}
    /\ handObjs[hand] = empty_hand

\* ------------------------------------------------------------------ C4

\* C4: once a HandLog is in the list of completed hands, no line changes
\* its place in the list, its blinds, at_table, vpip, has_showdown or pots,
\* nor the amounts, winners or at_showdown of any of its pots.
C4_FinalizedHandsFrozen ==
    [][\A k \in 1..Len(hands) :
          /\ Len(hands') >= k
          /\ hands'[k] = hands[k]
          /\ HandValue(handObjs', potObjs', hands[k])
               = HandValue(handObjs, potObjs, hands[k])]_vars

\* A hand with a pot has been completed and a winner line and a settlement
\* line have been processed after it.
C4_Witness ==
    /\ Len(hands) = 1
    /\ Len(handObjs[hands[1]].pots) = 1
    /\ Rule(line) = "rake"
    /\ pc = "reading"
    /\ Len(handObjs[hand].pots) = 1

\* ------------------------------------------------------------------ C5

\* C5: a winner line for player n with amount a adds a/10 to winners[n] of
\* the open pot, a pot being opened first when none is open; two winner
\* lines for one player before a settlement line leave the sum of both.
C5_WinnerAccumulates ==
    [][(pc' = "reading" /\ i' = i + 1 /\ Rule(line') = "winner") =>
          /\ pot' # None
          /\ potObjs'[pot'].winners[line'.name] =
               (IF pot # None
                THEN MapGet(potObjs[pot].winners, line'.name) ELSE 0)
                 + ScaledAmount(line'.amount)]_vars

\* ------------------------------------------------------------------ C6

\* C6: the list of completed hands changes only when a blank line meets a
\* non-empty accumulator, and then that accumulator is appended at its end
\* and is in the list once; a hand-start marker appends nothing, replaces
\* the accumulator by an empty hand that is in no list, and empties the
\* showdown-names list.
C6_OnlyBlankLineAppends ==
    [][/\ (hands' # hands) =>
            /\ i' = i + 1
            /\ Rule(line') = "blank"
            /\ ~ is_empty(handObjs[hand])
            /\ hands' = Append(hands, hand)
            /\ ~ Referenced(hands, hand)
       /\ (i' = i + 1 /\ Rule(line') = "blank"
             /\ ~ is_empty(handObjs[hand])) =>
            hands' = Append(hands, hand)
       /\ (i' = i + 1 /\ Rule(line') = "hand_start") =>
            /\ hands' = hands
            /\ handObjs'[hand'] = empty_hand
            /\ ~ Referenced(hands', hand')
            /\ shows' = <<>>]_vars

\* A hand-start marker has been processed when the accumulator held a
\* settled pot: no hand has been completed, and the pot is in no hand.
C6_Witness ==
    /\ Rule(line) = "hand_start"
    /\ i = 3
    /\ hands = <<>>
    /\ Len(potObjs) = 1
    /\ pot = None
    /\ handObjs[hand] = empty_hand

\* ------------------------------------------------------------------ C7

\* C7: at the end of the stream the accumulator is not flushed: the
\* hand_logs returned are the list of completed hands as the last line
\* left it, and a non-empty accumulator is not among them.
C7_NoFlushAtEndOfStream ==
    pc = "returned" =>
        /\ result.hand_logs = hands
        /\ ~ Referenced(result.hand_logs, hand)

\* The stream has ended after a completed hand and a further hand that no
\* blank line followed: the result holds the first hand only.
C7_Witness ==
    /\ pc = "returned"
    /\ Len(result.hand_logs) = 1
    /\ ~ is_empty(handObjs[hand])
    /\ handObjs[hand].blinds # EmptyMap

\* ------------------------------------------------------------------ C8

\* C8: the players the main program requests a report block for are
\* exactly the players that are a key of blinds in some hand of hand_logs,
\* each of them once.
C8_ReportsExactlyBlindPosters ==
    mpc \in {"done", "raised"} =>
        /\ {Requested[k] : k \in 1..Len(Requested)}
             = BlindPosters(hand_history.hand_logs)
        /\ \A j, k \in 1..Len(Requested) : Requested[j] = Requested[k] => j = k

\* ------------------------------------------------------------------ C9

\* The sum of f over the set S of its arguments.
RECURSIVE SumOver(_, _)
SumOver(f, S) ==
    IF S = {} THEN 0
    ELSE LET x == CHOOSE y \in S : TRUE
         IN  f[x] + SumOver(f, S \ {x})

\* What the player was awarded from, and what the player put into, the pots
\* of hand h.
TotalWon(h, player) ==
    SumOver([p \in 1..Len(h.pots) |-> MapGet(h.pots[p].winners, player)],
            1..Len(h.pots))

TotalBet(h, player) ==
    SumOver([p \in 1..Len(h.pots) |-> MapGet(h.pots[p].amounts, player)],
            1..Len(h.pots))

\* C9: a pass of the loop of player_info counts the hand in num_hands_won
\* iff amount_won > 0 and amount_won > amount_bet, in num_hands_lost iff it
\* is not counted as won and amount_bet > 0, never in both, and a won hand
\* in num_hands_won_showdown iff the hand has has_showdown.
C9_WonLostClassification ==
    [][(mpc = "info_loop" /\ mpc' = "info_loop" /\ info'.k = info.k + 1) =>
          LET h == hand_history.hand_logs[info.k + 1]
              w == TotalWon(h, info.player)
              b == TotalBet(h, info.player)
              won == w > 0 /\ w > b
              lost == ~ won /\ b > 0
              step(before, after, counted) ==
                  after = before + (IF counted THEN 1 ELSE 0)
          IN  /\ step(info.num_hands_won, info'.num_hands_won, won)
              /\ step(info.num_hands_lost, info'.num_hands_lost, lost)
              /\ step(info.num_hands_won_showdown,
                      info'.num_hands_won_showdown, won /\ h.has_showdown)
              /\ ~ (info'.num_hands_won > info.num_hands_won
                      /\ info'.num_hands_lost > info.num_hands_lost)]_vars

\* The loop has processed, for Alice, a hand with one pot of amounts
\* {Alice: 2, Bob: 2} and winners {Alice: 4}: a win, of net +2.
C9_Witness ==
    /\ mpc = "info_loop"
    /\ info.player = "Alice"
    /\ info.k = 1
    /\ hand_history.hand_logs[1].pots
         = <<PotOf(Both(200, 200), Only("Alice", 400), Names)>>
    /\ info.num_hands_won = 1
    /\ info.num_hands_lost = 0
    /\ info.net = 200
    /\ info.max_pot = 200

\* ----------------------------------------------------------------- C10

\* The hands of hs classified as lost in which the player is in vpip.
LostVpipHands(hs, player) ==
    {k \in 1..Len(hs) :
        /\ ~ (TotalWon(hs[k], player) > 0
                /\ TotalWon(hs[k], player) > TotalBet(hs[k], player))
        /\ TotalBet(hs[k], player) > 0
        /\ player \in hs[k].vpip}

\* C10: the amount printed as "Average Pot Lost (VPiP only)" is the sum of
\* amount_bet - amount_won over the hands classified as lost in which the
\* player is in vpip, divided by the number of those hands.
C10_AverageLostVpip ==
    \A b \in 1..Len(stdout) :
        stdout[b].complete =>
            LET hs == hand_history.hand_logs
                lv == LostVpipHands(hs, stdout[b].player)
                loss == [k \in lv |->
                           TotalBet(hs[k], stdout[b].player)
                             - TotalWon(hs[k], stdout[b].player)]
            IN  /\ stdout[b].num_hands_lost_vpip = Cardinality(lv)
                /\ lv # {} =>
                     stdout[b].avg_lost_vpip
                       = Format2(SumOver(loss, lv), Cardinality(lv))

\* ----------------------------------------------------------------- C11

\* Whether some HandLog object of objs has the Pot p among its pots.
PotInSomeHand(objs, p) ==
    \E r \in 1..Len(objs) : \E k \in 1..Len(objs[r].pots) : objs[r].pots[k] = p

\* C11: the pots of a hand grow only when a settlement line is processed,
\* by exactly the open Pot, which was in no hand before, and the pot
\* accumulator is none right after; a winner line records its name in the
\* open Pot, keeping the names already there, and opens a Pot only when
\* none is open; no other line changes which Pot is open.
C11_PotAppendedOnlyAtSettlement ==
    [][/\ \A r \in 1..Len(handObjs') :
            LET old == IF r <= Len(handObjs) THEN handObjs[r].pots ELSE <<>>
                new == handObjs'[r].pots
            IN  \/ new = old
                \/ new = <<>>
                \/ /\ i' = i + 1
                   /\ Rule(line') = "rake"
                   /\ r = hand
                   /\ pot # None
                   /\ ~ PotInSomeHand(handObjs, pot)
                   /\ new = Append(old, pot)
                   /\ pot' = None
       /\ (i' = i + 1 /\ Rule(line') = "rake" /\ pc' = "reading") =>
            /\ handObjs'[hand].pots = Append(handObjs[hand].pots, pot)
            /\ pot' = None
       /\ (i' = i + 1 /\ Rule(line') = "winner" /\ pc' = "reading") =>
            /\ pot' # None
            /\ ~ PotInSomeHand(handObjs', pot')
            /\ IF pot # None
               THEN /\ pot' = pot
                    /\ DOMAIN potObjs'[pot].winners
                         = (DOMAIN potObjs[pot].winners) \cup {line'.name}
               ELSE /\ pot' = Len(potObjs) + 1
                    /\ DOMAIN potObjs'[pot'].winners = {line'.name}
       /\ (i' = i + 1 /\ Rule(line') \notin {"winner", "rake"}) =>
            pot' = pot]_vars

\* Two winner lines with different names and then a settlement line have
\* been processed: one Pot, in the current hand, whose winners has both.
C11_Witness ==
    /\ Rule(line) = "rake"
    /\ i = 3
    /\ pot = None
    /\ Len(potObjs) = 1
    /\ handObjs[hand].pots = <<1>>
    /\ DOMAIN potObjs[1].winners = Names

\* ----------------------------------------------------------------- C12

\* C12: every entry of amounts in every Pot of every hand of the result is
\* non-zero.
C12_AmountsNonZero ==
    pc = "returned" =>
        \A k \in 1..Len(result.hand_logs) :
            LET h == HandValue(handObjs, potObjs, result.hand_logs[k])
            IN  \A p \in 1..Len(h.pots) :
                    \A n \in DOMAIN h.pots[p].amounts :
                        h.pots[p].amounts[n] # 0

\* ----------------------------------------------------------------- C13

\* The order of the rules as the claim lists it, and the pattern of each.
RuleOrder ==
    <<"blank", "hand_start", "seat", "showdown", "winner", "shows", "vpip",
      "blind", "rake", "adds">>

PatternOf ==
    [hand_start |-> "hand_start_re", seat |-> "part_re",
     showdown |-> "showdown_re", winner |-> "winner_re", shows |-> "show_re",
     vpip |-> "vpip_re", blind |-> "blinds_in", rake |-> "rake_re",
     adds |-> "adds_re"]

\* The earliest rule of RuleOrder the line l matches, "none" if there is none.
FirstRule(l) ==
    LET K == {k \in 1..Len(RuleOrder) :
                 IF RuleOrder[k] = "blank" THEN l.blank
                 ELSE PatternOf[RuleOrder[k]] \in l.matches}
    IN  IF K = {} THEN "none"
        ELSE RuleOrder[CHOOSE k \in K : \A j \in K : k <= j]

\* C13: processing a line changes only what the earliest rule it matches
\* changes, whatever else it matches: the current hand changes in the one
\* field of that rule, only a hand-start or shows line changes the showdown
\* names, only a winner or settlement line touches a Pot, only a
\* chip-addition line changes the additions, only a blank or hand-start
\* line replaces the accumulator; a line matching no rule changes nothing.
C13_FirstMatchWins ==
    [][(i' = i + 1) =>
        LET l == line'
            f == FirstRule(l)
            h == handObjs[hand]
            h2 == handObjs'[hand']
        IN  /\ f \notin {"blank", "hand_start"} =>
                /\ hands' = hands
                /\ hand' = hand
                /\ Len(handObjs') = Len(handObjs)
                /\ \A r \in 1..Len(handObjs) :
                       r # hand => handObjs'[r] = handObjs[r]
                /\ f = "seat" =>
                       h2 = [h EXCEPT !.at_table = @ \cup {l.name}]
                /\ f = "showdown" => h2 = [h EXCEPT !.has_showdown = TRUE]
                /\ f = "vpip" => h2 = [h EXCEPT !.vpip = @ \cup {l.name}]
                /\ f = "blind" =>
                       /\ [h2 EXCEPT !.blinds = h.blinds] = h
                       /\ pc' = "reading" => l.name \in DOMAIN h2.blinds
                /\ f = "rake" => [h2 EXCEPT !.pots = h.pots] = h
                /\ f \in {"winner", "shows", "adds", "none"} => h2 = h
            /\ f \notin {"hand_start", "shows"} => shows' = shows
            /\ f = "shows" => shows' = Append(shows, l.name)
            /\ f \notin {"winner", "rake"} =>
                   /\ pot' = pot
                   /\ potObjs' = potObjs
            /\ (f = "winner" /\ pc' = "reading") =>
                   l.name \in DOMAIN potObjs'[pot'].winners
            /\ f # "adds" => player_adds' = player_adds
            /\ f \notin {"winner", "blind", "rake", "adds"} =>
                   pc' = "reading"
            /\ f = "none" =>
                   UNCHANGED <<hands, hand, shows, pot, player_adds,
                               handObjs, potObjs, pc, error, result>>]_vars

\* A line that part_re, winner_re and show_re all match has been processed
\* as a seat line: its name is at the table, no Pot was opened and no name
\* was added to the showdown names.
C13_Witness ==
    /\ i > 0
    /\ line.matches = {"part_re", "winner_re", "show_re"}
    /\ line.name \in handObjs[hand].at_table
    /\ pot = None
    /\ potObjs = <<>>
    /\ shows = <<>>

\* ----------------------------------------------------------------- C14

\* C14: a chip-addition line appends the one pair (name, amount / 10) at
\* the end of the additions list and leaves the completed hands, the
\* accumulator, the open Pot, the showdown names and every object as they
\* are; no other step changes the list; the adds returned are that list.
C14_AddsAppendsOnePair ==
    [][/\ (i' = i + 1 /\ Rule(line') = "adds" /\ pc' = "reading") =>
            /\ player_adds' =
                 Append(player_adds,
                        <<line'.name, ParseFloat(line'.amount) \div Divisor>>)
            /\ UNCHANGED <<hands, hand, shows, pot, handObjs, potObjs>>
       /\ ~ (i' = i + 1 /\ Rule(line') = "adds") =>
            player_adds' = player_adds
       /\ pc' = "returned" => result'.adds = player_adds']_vars

\* Two different chip additions were read before a hand-start line, which
\* completes no hand, and the stream ended: the result has no hand and
\* both additions, in input order.
C14_Witness ==
    /\ pc = "returned"
    /\ i = 4
    /\ Rule(line) = "hand_start"
    /\ result.hand_logs = <<>>
    /\ result.adds = <<<<"Bob", 450>>, <<"Alice", 200>>>>

\* ----------------------------------------------------------------- C15

\* C15: the showdown names are emptied by a hand-start line, extended by a
\* shows line and left alone by every other line; a settlement sets the
\* at_showdown of the Pot it appends to the set of those names, no step
\* changes the at_showdown of any other Pot, and among the pots of one hand
\* the at_showdown of a later Pot includes that of every earlier one.
C15_AtShowdownSnapshot ==
    [][/\ (i' = i + 1) =>
            shows' = CASE Rule(line') = "hand_start" -> <<>>
                       [] Rule(line') = "shows" -> Append(shows, line'.name)
                       [] OTHER -> shows
       /\ (i' = i + 1 /\ Rule(line') = "rake" /\ pc' = "reading") =>
            potObjs'[pot].at_showdown = {shows[k] : k \in 1..Len(shows)}
       /\ \A p \in 1..Len(potObjs) :
            (p # pot \/ ~ (i' = i + 1 /\ Rule(line') = "rake")) =>
                potObjs'[p].at_showdown = potObjs[p].at_showdown
       /\ \A r \in 1..Len(handObjs') :
            \A a, b \in 1..Len(handObjs'[r].pots) :
                a < b =>
                    potObjs'[handObjs'[r].pots[a]].at_showdown
                      \subseteq potObjs'[handObjs'[r].pots[b]].at_showdown
      ]_vars

\* A shows line was processed after a settlement that had one name at
\* showdown: the Pot appended keeps the one name it was settled with.
C15_Witness ==
    /\ Len(shows) = 2
    /\ Rule(line) = "shows"
    /\ handObjs[hand].pots = <<1>>
    /\ potObjs[1].at_showdown = {shows[1]}
    /\ shows[2] # shows[1]

\* ----------------------------------------------------------------- C16

\* C16: the accumulator starts with has_showdown false; a blank or
\* hand-start line leaves a fresh accumulator with has_showdown false; a
\* showdown marker makes has_showdown true in the current accumulator; and
\* no step changes has_showdown in any other hand, so a completed hand has
\* it true exactly when a marker was processed while it was the accumulator.
C16_HasShowdownPerHand ==
    [][/\ i = 0 => ~ handObjs[hand].has_showdown
       /\ \A r \in 1..Len(handObjs') :
            LET step == i' = i + 1
                kind == Rule(line')
            IN  IF step /\ kind \in {"blank", "hand_start"} /\ r = hand'
                THEN ~ handObjs'[r].has_showdown
                ELSE IF step /\ kind = "showdown" /\ r = hand
                THEN handObjs'[r].has_showdown
                ELSE /\ r <= Len(handObjs)
                     /\ handObjs'[r].has_showdown = handObjs[r].has_showdown
      ]_vars

\* Two hands were completed, the first with a showdown marker and the
\* second without: has_showdown is true in the first only.
C16_Witness ==
    /\ Len(hands) = 2
    /\ handObjs[hands[1]].has_showdown
    /\ ~ handObjs[hands[2]].has_showdown
    /\ ~ handObjs[hand].has_showdown

\* ----------------------------------------------------------------- C17

\* The net amounts of player over the first n hands of hs, one per hand.
HandNets(hs, n, player) ==
    {TotalWon(hs[k], player) - TotalBet(hs[k], player) : k \in 1..n}

\* Whether m is the largest, respectively smallest, element of S \cup {0}.
IsMaxWithZero(m, S) == m \in S \cup {0} /\ \A x \in S \cup {0} : x <= m

IsMinWithZero(m, S) == m \in S \cup {0} /\ \A x \in S \cup {0} : m <= x

\* C17: after every hand processed max_pot is the largest of 0 and the net
\* amounts of the hands processed and min_pot the smallest, so
\* max_pot >= 0 >= min_pot; a block that got as far as Max Pot Won (Net),
\* as every block showing an Average Pot Won did, shows that maximum over
\* all hands, and a complete block shows that minimum as Max Pot Lost (Net).
C17_MaxAndMinPot ==
    /\ mpc = "info_loop" =>
          LET nets == HandNets(hand_history.hand_logs, info.k, info.player)
          IN  /\ info.max_pot >= 0
              /\ info.min_pot <= 0
              /\ IsMaxWithZero(info.max_pot, nets)
              /\ IsMinWithZero(info.min_pot, nets)
    /\ \A k \in 1..Len(stdout) :
          LET b == stdout[k]
              nets == HandNets(hand_history.hand_logs,
                               Len(hand_history.hand_logs), b.player)
          IN  /\ (b.complete \/ b.avg_gross_won > 0) =>
                     IsMaxWithZero(b.max_pot, nets)
              /\ b.complete => IsMinWithZero(b.min_pot, nets)

\* A complete block was printed for a player with a hand of positive net
\* and a hand of negative net.
C17_Witness ==
    \E k \in 1..Len(stdout) :
        /\ stdout[k].complete
        /\ stdout[k].max_pot > 0
        /\ stdout[k].min_pot < 0

\* ----------------------------------------------------------------- C18

\* C18: the pot accumulator is none at every hand boundary, that is, right
\* after a blank line or a hand-start line has been processed.
C18_PotNoneAtHandBoundary ==
    (i > 0 /\ Rule(line) \in {"blank", "hand_start"}) => pot = None

\* ----------------------------------------------------------------- C19

\* Whether player has an entry in the amounts of some pot of hand h, which
\* is what num_part counts.
InPart(h, player) ==
    \E p \in 1..Len(h.pots) : player \in DOMAIN h.pots[p].amounts

\* C19 as stated: when the loop of player_info has processed every hand,
\* the hands counted as won and as lost are together at most num_part.
C19_WonAndLostWithinPart ==
    (mpc = "info_loop" /\ info.k = Len(hand_history.hand_logs)) =>
        info.num_hands_won + info.num_hands_lost <= info.num_part

\* C19 as amended: every hand counted as lost, and every hand counted as
\* won in which the player put something into a pot, is a hand counted in
\* num_part; a hand counted as won that num_part does not count is one
\* where the player is awarded from pots and is in no amounts; the hands
\* counted as lost never exceed num_part.
C19_LostWithinPart ==
    [][(mpc = "info_loop" /\ mpc' = "info_loop" /\ info'.k = info.k + 1) =>
          LET h == hand_history.hand_logs[info.k + 1]
              w == TotalWon(h, info.player)
              b == TotalBet(h, info.player)
              won == info'.num_hands_won = info.num_hands_won + 1
              lost == info'.num_hands_lost = info.num_hands_lost + 1
          IN  /\ lost => InPart(h, info.player)
              /\ (won /\ b > 0) => InPart(h, info.player)
              /\ (won /\ ~ InPart(h, info.player)) => (w > 0 /\ b = 0)
              /\ info'.num_hands_lost <= info'.num_part]_vars

\* The loop has processed a hand the player won without an entry in any
\* amounts and a hand the player lost: two hands counted, one in num_part.
C19_Witness ==
    /\ mpc = "info_loop"
    /\ info.k = 2
    /\ info.num_hands_won = 1
    /\ info.num_hands_lost = 1
    /\ info.num_part = 1

\* ----------------------------------------------------------------- C20

\* C20 as stated: after every hand processed the accumulators of
\* player_info satisfy net = net_won - net_lost.
C20_NetIsWonMinusLost ==
    mpc = "info_loop" => info.net = FSub(info.net_won, info.net_lost)

\* net - (net_won - net_lost) is 0 or below 2^-40 in magnitude.
C20_Close(inf) ==
    LET gap == FSub(inf.net, FSub(inf.net_won, inf.net_lost))
    IN  gap = FZero \/ gap.exp + FloatBits <= 0 - 40

\* C20 as amended: a pass of the loop adds the net amount of the hand to
\* net, and adds it to net_won when the hand is counted as won, its
\* negation to net_lost when the hand is counted as lost, and is a hand of
\* net amount 0 when it is counted as neither; so net and
\* net_won - net_lost are sums of the same terms, equal but for the
\* rounding of the sums, which are taken in different orders.
C20_NetAccountedByWonAndLost ==
    [][(mpc = "info_loop" /\ mpc' = "info_loop" /\ info'.k = info.k + 1) =>
          LET h == hand_history.hand_logs[info.k + 1]
              w == FloatAmountWon(h.pots, info.player, Len(h.pots))
              b == FloatAmountBet(h.pots, info.player, Len(h.pots))
              won == info'.num_hands_won = info.num_hands_won + 1
              lost == info'.num_hands_lost = info.num_hands_lost + 1
          IN  /\ info'.net = FAdd(info.net, FSub(w, b))
              /\ ~ (won /\ lost)
              /\ info'.net_won =
                   IF won THEN FAdd(info.net_won, FSub(w, b))
                   ELSE info.net_won
              /\ info'.net_lost =
                   IF lost THEN FAdd(info.net_lost, FSub(b, w))
                   ELSE info.net_lost
              /\ (~ won /\ ~ lost) => (FSub(w, b) = FZero /\ info'.net = info.net)
              /\ C20_Close(info')]_vars

\* Three hands have been processed, one counted as won and two as lost,
\* and net differs from net_won - net_lost by the rounding of the sums.
C20_Witness ==
    /\ mpc = "info_loop"
    /\ info.k = 3
    /\ info.num_hands_won = 1
    /\ info.num_hands_lost = 2
    /\ info.net # FSub(info.net_won, info.net_lost)

====
